---- MODULE Spec2Model ----
(***************************************************************************)
(* Model of the TLRU cache of src/tlru.go: a key index, a recency list and *)
(* a deadline trie under one lock, with cost accounting.                   *)
(*                                                                         *)
(* Time is an integer count of nanoseconds.  time.Time values (the clock,  *)
(* the deadline stored in a node) are unbounded integers; the value of     *)
(* UnixNano() and time.Duration are signed integers of KeyLen*ByteBits     *)
(* bits, and a deadline key is KeyLen bytes of ByteBits bits, big-endian.  *)
(* The source has 8 bytes of 8 bits; the model keeps the layout and the    *)
(* wrap-around at a reduced size.  There is one clock, which never runs    *)
(* backwards; every reading of time.Now() may find it advanced.            *)
(* panicked marks a run that has reached one of the two panics (or a sweep *)
(* that can no longer end); no operation follows it.                       *)
(***************************************************************************)
EXTENDS Integers, Sequences, FiniteSets, TLC

\* ---- bounds of the model: the clock, and the size of a deadline key ----
StartTime == 3
MaxTicks == 1
ByteBits == 4
KeyLen == 3

\* The arguments of the calls: keys, values, and the costLimit given to New
\* (-1 disables cost limiting).
Keys == {1, 2}
Vals == {0, 1}
CostLimits == {-1, 0, 1}
MaxTime == StartTime + MaxTicks

\* ---- integer widths ----
ByteBase == 2 ^ ByteBits
Modulus == ByteBase ^ KeyLen
MaxDuration == (Modulus \div 2) - 1
MinDuration == 0 - (Modulus \div 2)

\* uint64(x): the unsigned value of a signed integer, or of a wrapped sum.
ToUint64(x) == x % Modulus

\* int64(x): the signed value of an unsigned integer, or of a wrapped sum.
ToInt64(x) == LET u == x % Modulus IN IF u > MaxDuration THEN u - Modulus ELSE u

\* Time.UnixNano(): nanoseconds since the epoch, wrapped to the signed width.
UnixNano(t) == ToInt64(t)

\* The ttl arguments of Set, the extremes of time.Duration among them.
TTLs == {MinDuration, -1, 0, 1, MaxDuration}

VARIABLES index, lruList, ttlTrie, cost, coster, costLimit, clock, panicked,
          recency, last, step, conc, loop, lru

vars == <<index, lruList, ttlTrie, cost, coster, costLimit, clock, panicked,
          recency, last, step, conc, loop, lru>>

\* ---- Coster ----
ConstantCost(v) == 1

\* A user-supplied Coster, as README's func(v string) int { return len(v) }.
WeightCost(v) == v

Costers == {"ConstantCost", "WeightCost"}

CostOf(v) == IF coster = "ConstantCost" THEN ConstantCost(v) ELSE WeightCost(v)

\* ---- deadline keys ----
RECURSIVE PutUint64(_, _)
PutUint64(u, n) ==
    IF n = 0 THEN <<>> ELSE Append(PutUint64(u \div ByteBase, n - 1), u % ByteBase)

RECURSIVE Uint64(_)
Uint64(b) ==
    IF b = <<>> THEN 0 ELSE Uint64(SubSeq(b, 1, Len(b) - 1)) * ByteBase + b[Len(b)]

formatDeadlineKey(t) == PutUint64(ToUint64(UnixNano(t)), KeyLen)

parseDeadlineKey(s) == ToInt64(Uint64(s))

\* Byte-wise comparison of two keys of equal length, as the radix tree orders them.
RECURSIVE BytesLess(_, _)
BytesLess(a, b) ==
    IF a = <<>> \/ b = <<>> THEN FALSE
    ELSE IF a[1] # b[1] THEN a[1] < b[1]
    ELSE BytesLess(Tail(a), Tail(b))

\* ---- radix.Tree ----
TrieGet(t, k) == k \in DOMAIN t

TrieInsert(t, k, v) == [x \in DOMAIN t \cup {k} |-> IF x = k THEN v ELSE t[x]]

TrieDelete(t, k) == [x \in DOMAIN t \ {k} |-> t[x]]

TrieMinimum(t) == CHOOSE k \in DOMAIN t : \A o \in DOMAIN t : o = k \/ BytesLess(k, o)

\* ---- doublelist.List: the head is the most recently appended node ----
ListAppend(l, id, data) == <<[id |-> id, Data |-> data]>> \o l

ListPop(l, id) == SelectSeq(l, LAMBDA n : n.id # id)

ListTail(l) == l[Len(l)]

NodeOf(l, id) == LET i == CHOOSE j \in 1..Len(l) : l[j].id = id IN l[i]

\* The allocation of a node: an address no node of the list has.
NewNode(l) ==
    CHOOSE id \in 1..(Len(l) + 1) : \A j \in 1..Len(l) : l[j].id # id

\* ---- the cache as a value: the fields of Cache that operations change ----
CacheState ==
    [index |-> index, lruList |-> lruList, ttlTrie |-> ttlTrie, cost |-> cost,
     panicked |-> panicked]

MapRemove(m, k) == [x \in DOMAIN m \ {k} |-> m[x]]

MapPut(m, k, v) == [x \in DOMAIN m \cup {k} |-> IF x = k THEN v ELSE m[x]]

\* delete, but the running cost keeps the cost of the deleted value.
deleteKeepsCost(c, key) ==
    IF key \notin DOMAIN c.index THEN [c |-> c, ret |-> 0]
    ELSE LET node == NodeOf(c.lruList, c.index[key])
             deadlineKey == formatDeadlineKey(node.Data.deadline)
         IN [c |-> [c EXCEPT !.lruList = ListPop(c.lruList, node.id),
                             !.ttlTrie = TrieDelete(c.ttlTrie, deadlineKey),
                             !.index = MapRemove(c.index, key)],
             ret |-> CostOf(node.Data.data)]

\* delete, but the deadline key stays in the trie.
deleteKeepsTrie(c, key) ==
    IF key \notin DOMAIN c.index THEN [c |-> c, ret |-> 0]
    ELSE LET node == NodeOf(c.lruList, c.index[key])
             costSaving == CostOf(node.Data.data)
         IN [c |-> [c EXCEPT !.lruList = ListPop(c.lruList, node.id),
                             !.cost = c.cost - costSaving,
                             !.index = MapRemove(c.index, key)],
             ret |-> costSaving]

\* delete, but it returns the running cost instead of the cost saving.
deleteReturnsTotal(c, key) ==
    IF key \notin DOMAIN c.index THEN [c |-> c, ret |-> 0]
    ELSE LET node == NodeOf(c.lruList, c.index[key])
             costSaving == CostOf(node.Data.data)
             deadlineKey == formatDeadlineKey(node.Data.deadline)
         IN [c |-> [c EXCEPT !.lruList = ListPop(c.lruList, node.id),
                             !.cost = c.cost - costSaving,
                             !.ttlTrie = TrieDelete(c.ttlTrie, deadlineKey),
                             !.index = MapRemove(c.index, key)],
             ret |-> c.cost - costSaving]

\* func (l *Cache) delete(key K) int
delete(c, key) ==
    IF key \notin DOMAIN c.index THEN [c |-> c, ret |-> 0]
    ELSE LET node == NodeOf(c.lruList, c.index[key])
             costSaving == CostOf(node.Data.data)
             deadlineKey == formatDeadlineKey(node.Data.deadline)
             popped == [c EXCEPT !.lruList = ListPop(c.lruList, node.id),
                                 !.cost = c.cost - costSaving]
         IN IF ~TrieGet(c.ttlTrie, deadlineKey)
            THEN [c |-> [popped EXCEPT !.panicked = TRUE], ret |-> costSaving]
            ELSE [c |-> [popped EXCEPT !.ttlTrie = TrieDelete(c.ttlTrie, deadlineKey),
                                       !.index = MapRemove(c.index, key)],
                  ret |-> costSaving]

\* func (l *Cache) evictExpires() int, with now the clock it reads.
\* gone collects the keys it deletes.
RECURSIVE evictExpires(_, _)
evictExpires(c, now) ==
    IF DOMAIN c.ttlTrie = {} \/ c.panicked THEN [c |-> c, ret |-> 0, gone |-> {}]
    ELSE LET deadlineKey == TrieMinimum(c.ttlTrie)
             k == c.ttlTrie[deadlineKey]
             expiresAt == parseDeadlineKey(deadlineKey)
         IN IF expiresAt > now THEN [c |-> c, ret |-> 0, gone |-> {}]
            ELSE IF k \notin DOMAIN c.index
            THEN [c |-> [c EXCEPT !.panicked = TRUE], ret |-> 0, gone |-> {}]
            ELSE LET d == delete(c, k)
                     r == evictExpires(d.c, now)
                 IN [c |-> r.c, ret |-> d.ret + r.ret, gone |-> {k} \cup r.gone]

\* evictOverages, but it takes the head of the list instead of the tail.
RECURSIVE evictOveragesHead(_)
evictOveragesHead(c) ==
    IF costLimit < 0 THEN [c |-> c, ret |-> 0, gone |-> {}]
    ELSE IF ~(c.cost > costLimit) \/ c.panicked THEN [c |-> c, ret |-> 0, gone |-> {}]
    ELSE IF c.lruList = <<>> THEN [c |-> c, ret |-> 0, gone |-> {}]
    ELSE LET first == Head(c.lruList)
             d == delete(c, first.Data.key)
             r == evictOveragesHead(d.c)
         IN [c |-> r.c, ret |-> d.ret + r.ret, gone |-> {first.Data.key} \cup r.gone]

\* func (l *Cache) evictOverages() int
RECURSIVE evictOverages(_)
evictOverages(c) ==
    IF costLimit < 0 THEN [c |-> c, ret |-> 0, gone |-> {}]
    ELSE IF ~(c.cost > costLimit) \/ c.panicked THEN [c |-> c, ret |-> 0, gone |-> {}]
    ELSE IF c.lruList = <<>> THEN [c |-> c, ret |-> 0, gone |-> {}]
    ELSE LET lastNode == ListTail(c.lruList)
             d == delete(c, lastNode.Data.key)
             r == evictOverages(d.c)
         IN [c |-> r.c, ret |-> d.ret + r.ret, gone |-> {lastNode.Data.key} \cup r.gone]

\* The conflict loop of Set: the deadline it settles on.
RECURSIVE resolveConflict(_, _, _)
resolveConflict(trie, deadline, conflictDelay) ==
    IF ~TrieGet(trie, formatDeadlineKey(deadline)) THEN deadline
    ELSE resolveConflict(trie, deadline + conflictDelay, ToInt64(conflictDelay * 2))

\* The end of Set: the insert into the trie, the append and the index entry.
insert(c, key, v, deadline) ==
    LET deadlineKey == formatDeadlineKey(deadline)
        id == NewNode(c.lruList)
        data == [data |-> v, key |-> key, deadline |-> deadline]
    IN IF TrieGet(c.ttlTrie, deadlineKey)
       THEN [c EXCEPT !.ttlTrie = TrieInsert(c.ttlTrie, deadlineKey, key),
                      !.panicked = TRUE]
       ELSE [c EXCEPT !.ttlTrie = TrieInsert(c.ttlTrie, deadlineKey, key),
                      !.lruList = ListAppend(c.lruList, id, data),
                      !.index = MapPut(c.index, key, id)]

\* get, but a hit also sweeps the entries whose deadline has passed.
getSweepsOthers(c, key, now) ==
    IF key \notin DOMAIN c.index
    THEN [c |-> c, found |-> FALSE, v |-> 0, deadline |-> 0, gone |-> {}]
    ELSE LET node == NodeOf(c.lruList, c.index[key])
         IN IF now > node.Data.deadline
            THEN [c |-> delete(c, key).c, found |-> FALSE, v |-> 0, deadline |-> 0,
                  gone |-> {key}]
            ELSE LET swept == evictExpires(c, now - 1)
                     popped == ListPop(swept.c.lruList, node.id)
                     id == NewNode(popped)
                 IN [c |-> [swept.c EXCEPT !.lruList = ListAppend(popped, id, node.Data),
                                           !.index = MapPut(swept.c.index, key, id)],
                     found |-> TRUE, v |-> node.Data.data,
                     deadline |-> node.Data.deadline, gone |-> swept.gone]

\* get, but an entry counts as expired from its deadline on (now >= deadline).
getExpiredAtDeadline(c, key, now) ==
    IF key \notin DOMAIN c.index
    THEN [c |-> c, found |-> FALSE, v |-> 0, deadline |-> 0, gone |-> {}]
    ELSE LET node == NodeOf(c.lruList, c.index[key])
         IN IF now >= node.Data.deadline
            THEN [c |-> delete(c, key).c, found |-> FALSE, v |-> 0, deadline |-> 0,
                  gone |-> {key}]
            ELSE LET popped == ListPop(c.lruList, node.id)
                     id == NewNode(popped)
                 IN [c |-> [c EXCEPT !.lruList = ListAppend(popped, id, node.Data),
                                     !.index = MapPut(c.index, key, id)],
                     found |-> TRUE, v |-> node.Data.data,
                     deadline |-> node.Data.deadline, gone |-> {}]

\* get, but a stale entry is reported as a miss and left where it is.
getLeavesStale(c, key, now) ==
    IF key \notin DOMAIN c.index
    THEN [c |-> c, found |-> FALSE, v |-> 0, deadline |-> 0, gone |-> {}]
    ELSE LET node == NodeOf(c.lruList, c.index[key])
         IN IF now > node.Data.deadline
            THEN [c |-> c, found |-> FALSE, v |-> 0, deadline |-> 0, gone |-> {key}]
            ELSE LET popped == ListPop(c.lruList, node.id)
                     id == NewNode(popped)
                 IN [c |-> [c EXCEPT !.lruList = ListAppend(popped, id, node.Data),
                                     !.index = MapPut(c.index, key, id)],
                     found |-> TRUE, v |-> node.Data.data,
                     deadline |-> node.Data.deadline, gone |-> {}]

\* func (l *Cache) get(key K) (v V, deadline time.Time, exists bool)
get(c, key, now) ==
    IF key \notin DOMAIN c.index
    THEN [c |-> c, found |-> FALSE, v |-> 0, deadline |-> 0, gone |-> {}]
    ELSE LET node == NodeOf(c.lruList, c.index[key])
         IN IF now > node.Data.deadline
            THEN [c |-> delete(c, key).c, found |-> FALSE, v |-> 0, deadline |-> 0,
                  gone |-> {key}]
            ELSE LET popped == ListPop(c.lruList, node.id)
                     id == NewNode(popped)
                 IN [c |-> [c EXCEPT !.lruList = ListAppend(popped, id, node.Data),
                                     !.index = MapPut(c.index, key, id)],
                     found |-> TRUE, v |-> node.Data.data,
                     deadline |-> node.Data.deadline, gone |-> {}]

\* ---- history: the order of last use, kept apart from the list ----
Without(s, ks) == SelectSeq(s, LAMBDA k : k \notin ks)

Touch(s, k) == <<k>> \o Without(s, {k})

\* The operation before the last one, kept when it was a Set or a Delete of
\* the same key: what a Get or a Delete directly follows.
NoPrior == [op |-> "none", val |-> 0, ttl |-> 0, now |-> 0, calls |-> 0, err |-> FALSE]

\* The record of the operation that completed last.
NoOp ==
    [op |-> "New", key |-> 0, val |-> 0, ttl |-> 0, now |-> 0,
     found |-> FALSE, ret |-> 0, deadline |-> 0,
     expired |-> {}, evicted |-> {}, follows |-> NoPrior,
     at |-> 0, calls |-> 0, err |-> FALSE]

Follows(key) ==
    IF last.op \in {"Set", "Delete"} /\ last.key = key
    THEN [NoPrior EXCEPT !.op = last.op, !.val = last.val, !.ttl = last.ttl,
                         !.now = last.now]
    ELSE NoPrior

\* What a Do directly follows: the outcome of a Do of the same key.
FollowsDo(key) ==
    IF last.op = "Do" /\ last.key = key
    THEN [NoPrior EXCEPT !.op = "Do", !.val = last.val, !.calls = last.calls,
                         !.err = last.err]
    ELSE NoPrior

Clocks(c) == {t \in c..(c + 1) : t <= MaxTime}

\* ---- what the longer runs keep, at rest in the runs that do not use it ----
\* No goroutine is inside a call and the lock is free.
NoCalls == [mu |-> 0, calls |-> <<>>, serial |-> <<>>]

\* No Set is in its conflict loop.
NoLoop == [pc |-> "idle", key |-> 0, v |-> 0, deadline |-> 0, conflictDelay |-> 0]

\* func NewLRU(cost Coster, maxCost int) *LRU: the fields that operations change.
\* found and v are what its last Get returned.
NewLRU == [index |-> <<>>, list |-> <<>>, cost |-> 0, found |-> FALSE, v |-> 0]

Commit(c) ==
    /\ index' = c.index
    /\ lruList' = c.lruList
    /\ ttlTrie' = c.ttlTrie
    /\ cost' = c.cost
    /\ panicked' = c.panicked

\* func New(cost Coster[V], costLimit int) *Cache[K, V]
Init ==
    /\ index = <<>>
    /\ lruList = <<>>
    /\ ttlTrie = <<>>
    /\ cost = 0
    /\ coster \in Costers
    /\ costLimit \in CostLimits
    /\ clock = StartTime
    /\ panicked = FALSE
    /\ recency = <<>>
    /\ last = NoOp
    /\ step = 0
    /\ conc = NoCalls
    /\ loop = NoLoop
    /\ lru = NewLRU

\* func (l *Cache) Set(key K, v V, ttl time.Duration)
\* sweepNow is the clock evictExpires reads, setNow the clock the deadline is
\* computed from.
Set(key, v, ttl) ==
    /\ ~panicked
    /\ \E sweepNow \in Clocks(clock) : \E setNow \in Clocks(sweepNow) :
       \E d \in {delete(CacheState, key)} :
       \E ex \in {evictExpires([d.c EXCEPT !.cost = d.c.cost + CostOf(v)], sweepNow)} :
       \E ov \in {evictOverages(ex.c)} :
       \E deadline \in {resolveConflict(ov.c.ttlTrie, setNow + ttl, 1)} :
            /\ Commit(IF ov.c.panicked THEN ov.c ELSE insert(ov.c, key, v, deadline))
            /\ clock' = setNow
            /\ recency' = Touch(Without(recency, ex.gone \cup ov.gone), key)
            /\ last' = [NoOp EXCEPT !.op = "Set", !.key = key, !.val = v, !.ttl = ttl,
                                    !.now = setNow, !.deadline = deadline,
                                    !.expired = ex.gone, !.evicted = ov.gone]
    /\ UNCHANGED <<coster, costLimit>>

\* func (l *Cache) Get(key K) (v V, deadline time.Time, exists bool)
Get(key) ==
    /\ ~panicked
    /\ \E now \in Clocks(clock) : \E r \in {get(CacheState, key, now)} :
            /\ Commit(r.c)
            /\ clock' = now
            /\ recency' = IF r.found THEN Touch(recency, key)
                          ELSE Without(recency, {key})
            /\ last' = [NoOp EXCEPT !.op = "Get", !.key = key, !.now = now,
                                    !.found = r.found, !.val = r.v,
                                    !.deadline = r.deadline, !.expired = r.gone,
                                    !.follows = Follows(key)]
    /\ UNCHANGED <<coster, costLimit>>

\* func (l *Cache) Delete(key K) int
Delete(key) ==
    /\ ~panicked
    /\ \E r \in {IF key \notin DOMAIN index THEN [c |-> CacheState, ret |-> 0]
                 ELSE delete(CacheState, key)} :
          /\ Commit(r.c)
          /\ recency' = Without(recency, {key})
          /\ last' = [NoOp EXCEPT !.op = "Delete", !.key = key, !.ret = r.ret,
                                  !.now = clock, !.follows = Follows(key)]
    /\ UNCHANGED <<coster, costLimit, clock>>

\* func (l *Cache) Evict() int
Evict ==
    /\ ~panicked
    /\ \E now \in Clocks(clock) :
       \E ex \in {evictExpires(CacheState, now)} :
       \E ov \in {evictOverages(ex.c)} :
            /\ Commit(ov.c)
            /\ clock' = now
            /\ recency' = Without(recency, ex.gone \cup ov.gone)
            /\ last' = [NoOp EXCEPT !.op = "Evict", !.now = now,
                                    !.ret = ex.ret + ov.ret,
                                    !.expired = ex.gone, !.evicted = ov.gone]
    /\ UNCHANGED <<coster, costLimit>>

Next ==
    \/ \E key \in Keys, v \in Vals, ttl \in TTLs : Set(key, v, ttl) /\ UNCHANGED <<step, conc, loop, lru>>
    \/ \E key \in Keys : Get(key) /\ UNCHANGED <<step, conc, loop, lru>>
    \/ \E key \in Keys : Delete(key) /\ UNCHANGED <<step, conc, loop, lru>>
    \/ Evict /\ UNCHANGED <<step, conc, loop, lru>>

Spec == Init /\ [][Next]_vars

\* ---- Do: the memoization helper ----
\* The ttl arguments of Do: expiring at once, short, and the longest Duration.
DoTTLs == {0, 1, MaxDuration}

\* What compute can return: a value, or a failure.
ComputeResults == {[ok |-> TRUE, v |-> v] : v \in Vals} \cup {[ok |-> FALSE, v |-> 0]}

\* set, but the deadline is the clock alone: the ttl is not added.
setWithoutTTL(c, key, v, ttl, sweepNow, setNow) ==
    LET d == delete(c, key)
        ex == evictExpires([d.c EXCEPT !.cost = d.c.cost + CostOf(v)], sweepNow)
        ov == evictOverages(ex.c)
        deadline == resolveConflict(ov.c.ttlTrie, setNow, 1)
    IN [c |-> IF ov.c.panicked THEN ov.c ELSE insert(ov.c, key, v, deadline),
        deadline |-> deadline, expired |-> ex.gone, evicted |-> ov.gone]

\* The body of Set between Lock and Unlock, as a function of the cache and
\* of the two clocks it reads.
set(c, key, v, ttl, sweepNow, setNow) ==
    LET d == delete(c, key)
        ex == evictExpires([d.c EXCEPT !.cost = d.c.cost + CostOf(v)], sweepNow)
        ov == evictOverages(ex.c)
        deadline == resolveConflict(ov.c.ttlTrie, setNow + ttl, 1)
    IN [c |-> IF ov.c.panicked THEN ov.c ELSE insert(ov.c, key, v, deadline),
        deadline |-> deadline, expired |-> ex.gone, evicted |-> ov.gone]

\* Do, but a failed compute leaves the cache as the lookup left it: without
\* the stale entry of the key.
DoReapsOnFailure(key, ttl) ==
    /\ ~panicked
    /\ \E at \in Clocks(clock) : \E r \in {get(CacheState, key, at)} :
          IF r.found
          THEN /\ Commit(r.c)
               /\ clock' = at
               /\ recency' = Touch(recency, key)
               /\ last' = [NoOp EXCEPT !.op = "Do", !.key = key, !.ttl = ttl,
                                       !.at = at, !.now = at, !.found = TRUE,
                                       !.val = r.v, !.deadline = r.deadline,
                                       !.follows = FollowsDo(key)]
          ELSE \E out \in ComputeResults :
               \E sweepNow \in Clocks(at) : \E setNow \in Clocks(sweepNow) :
                  IF ~out.ok
                  THEN /\ Commit(r.c)
                       /\ clock' = sweepNow
                       /\ setNow = sweepNow
                       /\ recency' = Without(recency, r.gone)
                       /\ last' = [NoOp EXCEPT !.op = "Do", !.key = key, !.ttl = ttl,
                                               !.at = at, !.now = sweepNow,
                                               !.calls = 1, !.err = TRUE,
                                               !.follows = FollowsDo(key)]
                  ELSE \E w \in {set(CacheState, key, out.v, ttl, sweepNow, setNow)} :
                       /\ Commit(w.c)
                       /\ clock' = setNow
                       /\ recency' = Touch(Without(recency, w.expired \cup w.evicted), key)
                       /\ last' = [NoOp EXCEPT !.op = "Do", !.key = key, !.ttl = ttl,
                                               !.at = at, !.now = setNow,
                                               !.val = out.v, !.calls = 1,
                                               !.deadline = w.deadline,
                                               !.follows = FollowsDo(key)]
    /\ UNCHANGED <<coster, costLimit>>

\* Do(key, compute, ttl): at is the clock the lookup reads; compute runs
\* between at and sweepNow, under the lock.  The lookup is that of get.  A key
\* that is present and unexpired is returned as by get; otherwise compute runs
\* once, a value is stored as by Set, and a failure leaves the cache unchanged.
Do(key, ttl) ==
    /\ ~panicked
    /\ \E at \in Clocks(clock) : \E r \in {get(CacheState, key, at)} :
          IF r.found
          THEN /\ Commit(r.c)
               /\ clock' = at
               /\ recency' = Touch(recency, key)
               /\ last' = [NoOp EXCEPT !.op = "Do", !.key = key, !.ttl = ttl,
                                       !.at = at, !.now = at, !.found = TRUE,
                                       !.val = r.v, !.deadline = r.deadline,
                                       !.follows = FollowsDo(key)]
          ELSE \E out \in ComputeResults :
               \E sweepNow \in Clocks(at) : \E setNow \in Clocks(sweepNow) :
                  IF ~out.ok
                  THEN /\ UNCHANGED <<index, lruList, ttlTrie, cost, panicked, recency>>
                       /\ clock' = sweepNow
                       /\ setNow = sweepNow
                       /\ last' = [NoOp EXCEPT !.op = "Do", !.key = key, !.ttl = ttl,
                                               !.at = at, !.now = sweepNow,
                                               !.calls = 1, !.err = TRUE,
                                               !.follows = FollowsDo(key)]
                  ELSE \E w \in {set(CacheState, key, out.v, ttl, sweepNow, setNow)} :
                       /\ Commit(w.c)
                       /\ clock' = setNow
                       /\ recency' = Touch(Without(recency, w.expired \cup w.evicted), key)
                       /\ last' = [NoOp EXCEPT !.op = "Do", !.key = key, !.ttl = ttl,
                                               !.at = at, !.now = setNow,
                                               !.val = out.v, !.calls = 1,
                                               !.deadline = w.deadline,
                                               !.follows = FollowsDo(key)]
    /\ UNCHANGED <<coster, costLimit>>

\* A cache filled through Do alone, with Get, Delete and Evict between.
NextDo ==
    \/ \E key \in Keys, ttl \in DoTTLs : Do(key, ttl) /\ UNCHANGED <<step, conc, loop, lru>>
    \/ \E key \in Keys : Get(key) /\ UNCHANGED <<step, conc, loop, lru>>
    \/ \E key \in Keys : Delete(key) /\ UNCHANGED <<step, conc, loop, lru>>
    \/ Evict /\ UNCHANGED <<step, conc, loop, lru>>

SpecDo == Init /\ [][NextDo]_vars

\* ---- src/lru.go: the cache without deadlines, maxCost = costLimit ----
\* func (l *LRU) evictOverages()
RECURSIVE LRUevictOverages(_)
LRUevictOverages(s) ==
    IF ~(s.cost > costLimit) \/ s.list = <<>> THEN s
    ELSE LET exit == ListTail(s.list)
         IN LRUevictOverages([s EXCEPT !.list = ListPop(s.list, exit.id),
                                       !.cost = s.cost - CostOf(exit.Data.data),
                                       !.index = MapRemove(s.index, exit.Data.key)])

\* func (l *LRU) Delete(key string)
LRUDelete(s, key) ==
    IF key \notin DOMAIN s.index THEN s
    ELSE LET node == NodeOf(s.list, s.index[key])
         IN [s EXCEPT !.list = ListPop(s.list, node.id),
                      !.cost = s.cost - CostOf(node.Data.data),
                      !.index = MapRemove(s.index, key)]

\* func (l *LRU) Set(key string, v T)
LRUSet(s, key, v) ==
    LET d == LRUDelete(s, key)
        e == LRUevictOverages([d EXCEPT !.cost = d.cost + CostOf(v)])
        id == NewNode(e.list)
    IN [e EXCEPT !.list = ListAppend(e.list, id, [data |-> v, key |-> key]),
                 !.index = MapPut(e.index, key, id)]

\* func (l *LRU) Get(key string) (v T, exists bool)
LRUGet(s, key) ==
    IF key \notin DOMAIN s.index THEN [s EXCEPT !.found = FALSE, !.v = 0]
    ELSE LET node == NodeOf(s.list, s.index[key])
             popped == ListPop(s.list, node.id)
             id == NewNode(popped)
         IN [s EXCEPT !.list = ListAppend(popped, id, node.Data),
                      !.index = MapPut(s.index, key, id),
                      !.found = TRUE, !.v = node.Data.data]

\* ---- the two caches, given the same calls ----
\* time.Hour*999 of TestTLRU_Expires/NeverExpires, in clock ticks.
NeverTTL == 999

\* The ttl arguments under which no deadline passes during a run.
LongTTLs == {NeverTTL, MaxDuration}

BothInit == Init /\ costLimit >= 0

BothSet(key, v, ttl) ==
    /\ Set(key, v, ttl)
    /\ lru' = LRUSet(lru, key, v)
    /\ UNCHANGED <<step, conc, loop>>

BothGet(key) ==
    /\ Get(key)
    /\ lru' = LRUGet(lru, key)
    /\ UNCHANGED <<step, conc, loop>>

BothDelete(key) ==
    /\ Delete(key)
    /\ lru' = LRUDelete(lru, key)
    /\ UNCHANGED <<step, conc, loop>>

NextBoth ==
    \/ \E key \in Keys, v \in Vals, ttl \in LongTTLs : BothSet(key, v, ttl)
    \/ \E key \in Keys : BothGet(key)
    \/ \E key \in Keys : BothDelete(key)

SpecBoth == BothInit /\ [][NextBoth]_vars

\* ---- TestTLRU/OldValuesEvicted: Set(i, i, time.Second) and Get(4), i = 0..99 ----
ScenKeys == 100
ScenLimit == 10
ScenBusy == 4
ScenTTL == 100

ScenInit ==
    /\ index = <<>>
    /\ lruList = <<>>
    /\ ttlTrie = <<>>
    /\ cost = 0
    /\ coster = "ConstantCost"
    /\ costLimit = ScenLimit
    /\ clock = StartTime
    /\ panicked = FALSE
    /\ recency = <<>>
    /\ last = NoOp
    /\ step = 1
    /\ conc = NoCalls
    /\ loop = NoLoop
    /\ lru = NewLRU

ScenSet ==
    /\ step % 2 = 1
    /\ (step - 1) \div 2 < ScenKeys
    /\ Set((step - 1) \div 2, (step - 1) \div 2, ScenTTL)
    /\ step' = step + 1
    /\ UNCHANGED <<conc, loop, lru>>

ScenGet ==
    /\ step > 0
    /\ step % 2 = 0
    /\ Get(ScenBusy)
    /\ step' = step + 1
    /\ UNCHANGED <<conc, loop, lru>>

ScenNext == ScenSet \/ ScenGet

ScenDone == step = 2 * ScenKeys + 1

\* The operations on a cache of any configuration, and the test's run.
NextLRU ==
    \/ step = 0 /\ Next
    \/ ScenNext

SpecLRU == (Init \/ ScenInit) /\ [][NextLRU]_vars

\* ---- Set, one round of its conflict loop at a time ----
\* Sets of new keys 1, 2, ... with the ttl of the tests, on a cache without
\* cost limit: as many as the conflict delay has doublings, and two more.
LoopKeys == KeyLen * ByteBits + 2

LoopInit == Init /\ costLimit = -1 /\ coster = "ConstantCost"

\* Set from Lock to the start of the loop, by goroutine 1: the lock, delete,
\* the cost, the two sweeps, deadline := time.Now().Add(ttl),
\* conflictDelay := time.Nanosecond.
LoopBegin(key, v, ttl) ==
    /\ ~panicked
    /\ loop.pc = "idle"
    /\ key = Cardinality(DOMAIN index) + 1
    /\ \E sweepNow \in Clocks(clock) : \E setNow \in Clocks(sweepNow) :
       \E d \in {delete(CacheState, key)} :
       \E ex \in {evictExpires([d.c EXCEPT !.cost = d.c.cost + CostOf(v)], sweepNow)} :
       \E ov \in {evictOverages(ex.c)} :
            /\ Commit(ov.c)
            /\ clock' = setNow
            /\ loop' = [pc |-> "probe", key |-> key, v |-> v,
                        deadline |-> setNow + ttl, conflictDelay |-> 1]
    /\ conc' = [conc EXCEPT !.mu = 1]
    /\ UNCHANGED <<coster, costLimit, recency, last, step, lru>>

\* One round on an occupied slot: deadline = deadline.Add(conflictDelay);
\* conflictDelay *= 2.
LoopBump ==
    /\ loop.pc = "probe"
    /\ TrieGet(ttlTrie, formatDeadlineKey(loop.deadline))
    /\ loop' = [loop EXCEPT !.deadline = loop.deadline + loop.conflictDelay,
                            !.conflictDelay = ToInt64(loop.conflictDelay * 2)]
    /\ UNCHANGED <<index, lruList, ttlTrie, cost, coster, costLimit, clock, panicked,
                   recency, last, step, conc, lru>>

\* The round on a free slot: break, the end of Set and the deferred Unlock.
LoopInsert ==
    /\ loop.pc = "probe"
    /\ ~TrieGet(ttlTrie, formatDeadlineKey(loop.deadline))
    /\ Commit(insert(CacheState, loop.key, loop.v, loop.deadline))
    /\ loop' = NoLoop
    /\ conc' = [conc EXCEPT !.mu = 0]
    /\ UNCHANGED <<coster, costLimit, clock, recency, last, step, lru>>

NextLoop ==
    \/ \E key \in 1..LoopKeys : LoopBegin(key, key, ScenTTL)
    \/ LoopBump
    \/ LoopInsert

SpecLoop == LoopInit /\ [][NextLoop]_vars

\* ---- goroutines: every public method between mu.Lock and mu.Unlock ----
Goroutines == {1, 2}

\* The ttl arguments of the concurrent Sets.
ConcTTLs == {0, 1}

\* A goroutine outside every call.  pc is where it stands: "idle", "lock"
\* (at l.mu.Lock()), "body" (lock taken, method not yet run), "write" (its
\* writes to the fields of Cache outstanding, held in pend), "unlock" (at
\* the deferred l.mu.Unlock()).  res is what the call returns, want what it
\* returns in the serial order of the lock.
NoResult == [found |-> FALSE, v |-> 0, ret |-> 0]

IdleCall ==
    [pc |-> "idle", op |-> "none", pend |-> <<>>, res |-> NoResult, want |-> NoResult]

\* The body of Evict between Lock and Unlock.
evict(c, now) ==
    LET ex == evictExpires(c, now)
        ov == evictOverages(ex.c)
    IN [c |-> ov.c, ret |-> ex.ret + ov.ret]

ConcInit ==
    /\ index = <<>>
    /\ lruList = <<>>
    /\ ttlTrie = <<>>
    /\ cost = 0
    /\ coster = "ConstantCost"
    /\ costLimit \in CostLimits
    /\ clock = StartTime
    /\ panicked = FALSE
    /\ recency = <<>>
    /\ last = NoOp
    /\ step = 0
    /\ conc = [mu |-> 0, calls |-> [g \in Goroutines |-> IdleCall],
               serial |-> [index |-> <<>>, lruList |-> <<>>, ttlTrie |-> <<>>,
                           cost |-> 0, panicked |-> FALSE]]
    /\ loop = NoLoop
    /\ lru = NewLRU

\* What no goroutine step changes.
ConcFrame == UNCHANGED <<coster, costLimit, recency, last, step, loop, lru>>

CacheFrame == UNCHANGED <<index, lruList, ttlTrie, cost, panicked>>

\* A goroutine calls a public method and arrives at l.mu.Lock().
Call(g) ==
    /\ conc.calls[g].pc = "idle"
    /\ conc' = [conc EXCEPT !.calls[g].pc = "lock"]
    /\ CacheFrame /\ ConcFrame /\ UNCHANGED clock

\* l.mu.Lock(): granted when the lock is free.
Lock(g) ==
    /\ conc.calls[g].pc = "lock"
    /\ conc.mu = 0
    /\ conc' = [conc EXCEPT !.mu = g, !.calls[g].pc = "body"]
    /\ CacheFrame /\ ConcFrame /\ UNCHANGED clock

\* The method op has run on the fields as it read them: c is the cache it
\* will leave, res its result; sc and want are the same for the serial order.
Ran(g, op, c, res, sc, want) ==
    conc' = [conc EXCEPT !.calls[g] = [pc |-> "write", op |-> op, pend |-> c,
                                       res |-> res, want |-> want],
                         !.serial = sc]

SetBody(g, key, v, ttl) ==
    /\ conc.calls[g].pc = "body"
    /\ ~panicked
    /\ \E sweepNow \in Clocks(clock) : \E setNow \in Clocks(sweepNow) :
       \E r \in {set(CacheState, key, v, ttl, sweepNow, setNow)} :
       \E sr \in {set(conc.serial, key, v, ttl, sweepNow, setNow)} :
          /\ Ran(g, "Set", r.c, NoResult, sr.c, NoResult)
          /\ clock' = setNow
    /\ CacheFrame /\ ConcFrame

GetBody(g, key) ==
    /\ conc.calls[g].pc = "body"
    /\ ~panicked
    /\ \E now \in Clocks(clock) :
       \E r \in {get(CacheState, key, now)} : \E sr \in {get(conc.serial, key, now)} :
          /\ Ran(g, "Get", r.c, [NoResult EXCEPT !.found = r.found, !.v = r.v],
                 sr.c, [NoResult EXCEPT !.found = sr.found, !.v = sr.v])
          /\ clock' = now
    /\ CacheFrame /\ ConcFrame

\* Delete of an absent key returns at once, through the deferred Unlock.
DeleteBody(g, key) ==
    /\ conc.calls[g].pc = "body"
    /\ ~panicked
    /\ \E sr \in {delete(conc.serial, key)} :
          IF key \notin DOMAIN index
          THEN conc' = [conc EXCEPT !.calls[g].pc = "unlock",
                                    !.calls[g].op = "Delete",
                                    !.calls[g].want = [NoResult EXCEPT !.ret = sr.ret],
                                    !.serial = sr.c]
          ELSE \E r \in {delete(CacheState, key)} :
                  Ran(g, "Delete", r.c, [NoResult EXCEPT !.ret = r.ret],
                      sr.c, [NoResult EXCEPT !.ret = sr.ret])
    /\ CacheFrame /\ ConcFrame /\ UNCHANGED clock

EvictBody(g) ==
    /\ conc.calls[g].pc = "body"
    /\ ~panicked
    /\ \E now \in Clocks(clock) :
       \E r \in {evict(CacheState, now)} : \E sr \in {evict(conc.serial, now)} :
          /\ Ran(g, "Evict", r.c, [NoResult EXCEPT !.ret = r.ret],
                 sr.c, [NoResult EXCEPT !.ret = sr.ret])
          /\ clock' = now
    /\ CacheFrame /\ ConcFrame

\* The writes of the method reach the fields of Cache.
Write(g) ==
    /\ conc.calls[g].pc = "write"
    /\ Commit(conc.calls[g].pend)
    /\ conc' = [conc EXCEPT !.calls[g].pc = "unlock", !.calls[g].pend = <<>>]
    /\ ConcFrame /\ UNCHANGED clock

\* defer l.mu.Unlock(), and the return.
Unlock(g) ==
    /\ conc.calls[g].pc = "unlock"
    /\ conc' = [conc EXCEPT !.mu = 0, !.calls[g] = IdleCall]
    /\ CacheFrame /\ ConcFrame /\ UNCHANGED clock

\* The steps of a goroutine that has arrived at a call.
Run(g) ==
    \/ Lock(g)
    \/ Unlock(g)
    \/ Write(g)
    \/ \E key \in Keys : DeleteBody(g, key)
    \/ \E key \in Keys : GetBody(g, key)
    \/ EvictBody(g)
    \/ \E key \in Keys, v \in Vals, ttl \in ConcTTLs : SetBody(g, key, v, ttl)

NextConc == \E g \in Goroutines : Call(g) \/ Run(g)

SpecConc == ConcInit /\ [][NextConc]_vars

\* ---- what the claims speak of ----
Stored == DOMAIN index

EntryOf(k) == NodeOf(lruList, index[k]).Data

ListKeys(l) == [i \in 1..Len(l) |-> l[i].Data.key]

Pos(seq, k) == CHOOSE i \in 1..Len(seq) : seq[i] = k

\* The slot the Set recorded in last.follows asked for: its clock plus its ttl.
AskedDeadline == last.follows.now + last.follows.ttl

GetAfterSet == last.op = "Get" /\ last.follows.op = "Set"

SlotTaken(k) ==
    /\ formatDeadlineKey(AskedDeadline) \in DOMAIN ttlTrie
    /\ ttlTrie[formatDeadlineKey(AskedDeadline)] # k

\* The sums 1, 1+2, 1+2+4, ... of the conflict delays, one round for each
\* other stored entry at most.
Bumps == {2 ^ n - 1 : n \in 1..(Cardinality(Stored) - 1)}

C2_CostWithinLimit ==
    (costLimit >= 0 /\ last.op \in {"Set", "Evict"}) => cost <= costLimit

\* C2, the part about Evict alone.
C2_EvictWithinLimit ==
    (costLimit >= 0 /\ last.op = "Evict") => cost <= costLimit

\* C3: the recency list is in order of last use (a Set or a Get hit puts the
\* key first), the entries evictOverages removes were used before every entry
\* that stays, and the test's run ends with exactly the keys 4 and 91..99.
C3_ListInOrderOfUse == ListKeys(lruList) = recency

C3_EvictsOldest ==
    \A e \in last'.evicted : \A k \in DOMAIN index' :
        (k \in DOMAIN index /\ ~(last'.op = "Set" /\ last'.key = k))
            => Pos(recency, e) > Pos(recency, k)

C3_ScenarioResult ==
    ScenDone => Stored = {ScenBusy} \cup ((ScenKeys - ScenLimit + 1)..(ScenKeys - 1))

\* C3: the three parts together, in every state and every step.
C3_LeastRecentlyUsedEvicted ==
    /\ [](C3_ListInOrderOfUse /\ C3_ScenarioResult)
    /\ [][C3_EvictsOldest]_vars

\* C3 witness: the test's run has ended with ScenLimit keys stored and its
\* last Get has found the busy key.
C3_Witness ==
    /\ ScenDone
    /\ Cardinality(Stored) = ScenLimit
    /\ last.op = "Get"
    /\ last.found

\* C4 as claimed: a Get directly after Set(k, v, ttl) with ttl <= 0 misses.
C4_NonPositiveTTLMisses ==
    (GetAfterSet /\ last.follows.ttl <= 0) => ~last.found

\* C5: a Get of a stored key whose deadline is earlier than the clock it reads
\* misses, and the key is gone from the index, the list and the trie, and its
\* cost from the running cost.
C5_Step ==
    \A k \in Keys :
        (last'.op = "Get" /\ last'.key = k /\ k \in Stored
            /\ last'.now > EntryOf(k).deadline)
        => /\ ~last'.found
           /\ k \notin DOMAIN index'
           /\ \A i \in 1..Len(lruList') : lruList'[i].Data.key # k
           /\ \A s \in DOMAIN ttlTrie' : ttlTrie'[s] # k
           /\ cost' = cost - CostOf(EntryOf(k).data)

\* C5: every step is such a step.
C5_ExpiredGetDeletes == [][C5_Step]_vars

\* C5 witness: a Get has deleted a stale key and another key is still stored.
C5_Witness ==
    /\ last.op = "Get"
    /\ last.expired = {last.key}
    /\ ~last.found
    /\ cost > 0

RECURSIVE SumCost(_)
SumCost(l) == IF l = <<>> THEN 0 ELSE CostOf(Head(l).Data.data) + SumCost(Tail(l))

\* C6: the running cost is the sum of the costs of the stored values.
C6_CostIsSum == cost = SumCost(lruList)

\* C6 witness: a Delete has taken a cost out and a cost is left.
C6_Witness ==
    /\ last.op = "Delete"
    /\ last.ret > 0
    /\ cost > 0
    /\ coster = "WeightCost"

\* C7: index, list and trie hold the same entries: every list node has its own
\* address and its own key, the index maps exactly the keys of the list to
\* the addresses of their nodes, the trie maps exactly the encoded deadlines of
\* the nodes to their keys, and neither panic has happened.
C7_StructuresAgree ==
    /\ ~panicked
    /\ \A i, j \in 1..Len(lruList) :
          i # j => /\ lruList[i].id # lruList[j].id
                   /\ lruList[i].Data.key # lruList[j].Data.key
    /\ DOMAIN index = {lruList[i].Data.key : i \in 1..Len(lruList)}
    /\ \A i \in 1..Len(lruList) : index[lruList[i].Data.key] = lruList[i].id
    /\ DOMAIN ttlTrie =
          {formatDeadlineKey(lruList[i].Data.deadline) : i \in 1..Len(lruList)}
    /\ \A i \in 1..Len(lruList) :
          ttlTrie[formatDeadlineKey(lruList[i].Data.deadline)] = lruList[i].Data.key
    /\ Cardinality(DOMAIN ttlTrie) = Len(lruList)

\* C7 witness: two entries are stored after a Get hit has re-appended one.
C7_Witness ==
    /\ Cardinality(Stored) = 2
    /\ last.op = "Get"
    /\ last.found
    /\ index[last.key] # 1

\* C8: Delete of a stored key returns the cost of its value and takes the key
\* out of index, list and trie; Delete of an absent key returns 0 and changes
\* nothing; a Delete directly after a Delete of the same key returns 0.
C8_Step ==
    \A k \in Keys :
        (last'.op = "Delete" /\ last'.key = k)
        => /\ IF k \in Stored
              THEN /\ last'.ret = CostOf(EntryOf(k).data)
                   /\ cost' = cost - last'.ret
                   /\ k \notin DOMAIN index'
                   /\ \A i \in 1..Len(lruList') : lruList'[i].Data.key # k
                   /\ \A s \in DOMAIN ttlTrie' : ttlTrie'[s] # k
              ELSE /\ last'.ret = 0
                   /\ UNCHANGED <<index, lruList, ttlTrie, cost>>
           /\ (last.op = "Delete" /\ last.key = k) => last'.ret = 0

\* C8: every step is such a step.
C8_DeleteIdempotent == [][C8_Step]_vars

\* C8 witness: a second Delete of the same key has returned 0 with another
\* key still stored.
C8_Witness ==
    /\ last.op = "Delete"
    /\ last.follows.op = "Delete"
    /\ last.ret = 0
    /\ Stored # {}

\* C9 as claimed: after Evict no stored entry has a deadline that has passed,
\* no entry whose deadline is still ahead was removed while the cost was within
\* the limit, and Evict returns the decrease of the running cost.
C9_Step ==
    last'.op = "Evict"
    => /\ \A i \in 1..Len(lruList') : lruList'[i].Data.deadline > last'.now
       /\ (costLimit < 0 \/ cost <= costLimit)
             => \A k \in Stored \ DOMAIN index' : EntryOf(k).deadline <= last'.now
       /\ last'.ret = cost - cost'

\* C9 as claimed, of every step.
C9_EvictSweepsExpired == [][C9_Step]_vars

\* C10 as claimed: with cost limiting disabled, a Set, Get or Evict removes
\* no entry whose deadline is still ahead (a Set replaces its own key).
C10_Step ==
    (costLimit < 0 /\ last'.op \in {"Set", "Get", "Evict"})
    => \A k \in Stored \ DOMAIN index' : EntryOf(k).deadline <= last'.now

\* C10 as claimed, of every step.
C10_DisabledLimitKeepsEntries == [][C10_Step]_vars

\* ---- C11: two Sets of distinct keys that compute the same deadline ----
\* A Set directly after a Set of another key, at the same clock and with the
\* same ttl > 0, the first stored under the deadline both compute, with no
\* entry evicted for cost.
SameDeadlineSets ==
    /\ last.op = "Set"
    /\ last.deadline = last.now + last.ttl
    /\ last'.op = "Set"
    /\ last'.key # last.key
    /\ last'.ttl = last.ttl
    /\ last'.now = last.now
    /\ last.ttl > 0
    /\ last'.evicted = {}

\* Key k is stored in cache c, with the entry e, and a Get no later than its
\* deadline finds it.
Retrievable(c, k, e) ==
    /\ k \in DOMAIN c.index
    /\ NodeOf(c.lruList, c.index[k]).Data = e
    /\ \A t \in Clocks(clock') :
          t <= e.deadline => LET r == get(c, k, t)
                             IN r.found /\ r.v = e.data /\ r.deadline = e.deadline

C11_NoSharedSlot ==
    \A i, j \in 1..Len(lruList) :
        i # j => formatDeadlineKey(lruList[i].Data.deadline)
                    # formatDeadlineKey(lruList[j].Data.deadline)

C11_Step ==
    SameDeadlineSets
    => LET a == last.key
           b == last'.key
           asked == last'.now + last'.ttl
           after == CacheState'
       IN /\ a \in DOMAIN index'
          /\ b \in DOMAIN index'
          /\ LET ea == NodeOf(lruList', index'[a]).Data
                 eb == NodeOf(lruList', index'[b]).Data
             IN /\ ea.data = last.val /\ ea.deadline = last.deadline
                /\ eb.data = last'.val /\ eb.deadline = last'.deadline
                /\ eb.deadline > asked
                /\ formatDeadlineKey(eb.deadline) # formatDeadlineKey(ea.deadline)
                /\ Retrievable(after, a, ea)
                /\ Retrievable(after, b, eb)
                /\ Retrievable(delete(after, a).c, b, eb)
                /\ Retrievable(delete(after, b).c, a, ea)
                /\ Retrievable(get(after, a, ea.deadline + 1).c, b, eb)
                /\ a \notin DOMAIN get(after, a, ea.deadline + 1).c.index

\* C11 as claimed: no two stored entries share an encoded deadline, and after
\* two Sets of distinct keys at the same instant with the same ttl both keys
\* are stored, the second under a later deadline with another encoding, both
\* are found by Get, and deleting or expiring one leaves the other found.
C11_SameDeadlineBothStored == [](C11_NoSharedSlot) /\ [][C11_Step]_vars

\* C11_Step for a ttl whose deadline UnixNano() can hold.
C11_StepInRange == (last.ttl < MaxDuration) => C11_Step

C11_InRangeBothStored == [](C11_NoSharedSlot) /\ [][C11_StepInRange]_vars

\* ---- C15: Delete and the entries whose deadline has passed ----
\* C15 as claimed: after Delete(k) no entry whose deadline has passed is
\* stored, as after Evict.
C15_Step ==
    last'.op = "Delete"
    => \A i \in 1..Len(lruList') : lruList'[i].Data.deadline > last'.now

\* C15 as claimed, of every step.
C15_DeleteSweepsExpired == [][C15_Step]_vars

\* ---- C16: what Get(k) changes ----
\* The stored entries of a list and an index, by key.
EntriesOf(l, ix) == [k \in DOMAIN ix |-> NodeOf(l, ix[k]).Data]

\* C16: Get of an absent key changes nothing; a hit moves k to the head of
\* the list and changes no stored key, value or deadline, nor the trie or the
\* running cost; Get of a stale k takes k out and nothing else.  In each case
\* every other key stays as it is, stale or not.
C16_Step ==
    \A k \in Keys :
        (last'.op = "Get" /\ last'.key = k)
        => /\ k \notin Stored
                => /\ ~last'.found
                   /\ UNCHANGED <<index, lruList, ttlTrie, cost>>
           /\ (k \in Stored /\ last'.found)
                => /\ EntriesOf(lruList', index') = EntriesOf(lruList, index)
                   /\ ListKeys(lruList') = Touch(ListKeys(lruList), k)
                   /\ UNCHANGED <<ttlTrie, cost>>
           /\ (k \in Stored /\ ~last'.found)
                => /\ DOMAIN index' = Stored \ {k}
                   /\ \A j \in Stored \ {k} :
                         EntriesOf(lruList', index')[j] = EntryOf(j)
                   /\ ListKeys(lruList') = Without(ListKeys(lruList), {k})
                   /\ ttlTrie' = TrieDelete(ttlTrie, formatDeadlineKey(EntryOf(k).deadline))
                   /\ cost' = cost - CostOf(EntryOf(k).data)
           /\ Stored \ {k} \subseteq DOMAIN index'

\* C16: every step is such a step.
C16_GetTouchesOnlyItsKey == [][C16_Step]_vars

\* C16 witness: a Get hit has left another key stored whose deadline has passed.
C16_Witness ==
    /\ last.op = "Get"
    /\ last.found
    /\ \E j \in Stored \ {last.key} : EntryOf(j).deadline < last.now

\* ---- C17: the order of the deadline keys ----
\* C17 as claimed: of the stored deadlines, the earlier one has the smaller
\* key byte by byte, a key decodes to the deadline it was encoded from, and
\* the minimum of the trie belongs to the entry that expires first.
C17_KeysOrderedAsDeadlines ==
    /\ \A i, j \in 1..Len(lruList) :
          lruList[i].Data.deadline < lruList[j].Data.deadline
             => BytesLess(formatDeadlineKey(lruList[i].Data.deadline),
                          formatDeadlineKey(lruList[j].Data.deadline))
    /\ \A i \in 1..Len(lruList) :
          parseDeadlineKey(formatDeadlineKey(lruList[i].Data.deadline))
             = lruList[i].Data.deadline
    /\ (DOMAIN ttlTrie # {} /\ ~panicked)
          => \A i \in 1..Len(lruList) :
                EntryOf(ttlTrie[TrieMinimum(ttlTrie)]).deadline
                   <= lruList[i].Data.deadline

\* ---- C19: Get and the sweep on the same entry at the same time ----
\* C19 as claimed: at every time the next call can read, Get finds a stored
\* key exactly when the expiry sweep at that time keeps it.
C19_GetAndSweepAgree ==
    \A k \in Stored : \A t \in Clocks(clock) :
        get(CacheState, k, t).found
            <=> k \in DOMAIN evictExpires(CacheState, t).c.index

\* ---- C12, C13: Do ----
\* C12: Do of a key that is stored and unexpired at the clock it reads returns
\* the stored value and does not invoke compute; any other Do invokes compute
\* once and, when compute returns a value, stores it under the clock of the
\* store plus ttl (moved by the conflict delays off a taken slot).  A Do
\* directly after a Do of the same key that stored a value with ttl > 0, no
\* later than the time of that store plus ttl, does not invoke compute and
\* returns the same value.
C12_Step ==
    \A k \in Keys :
        (last'.op = "Do" /\ last'.key = k)
        => /\ IF k \in Stored /\ ~(last'.at > EntryOf(k).deadline)
              THEN /\ last'.calls = 0
                   /\ ~last'.err
                   /\ last'.val = EntryOf(k).data
              ELSE /\ last'.calls = 1
                   /\ ~last'.err
                        => /\ k \in DOMAIN index'
                           /\ EntriesOf(lruList', index')[k].data = last'.val
                           /\ EntriesOf(lruList', index')[k].deadline = last'.deadline
                           /\ last'.deadline - (last'.now + last'.ttl)
                                 \in {2 ^ n - 1 : n \in 0..Cardinality(Stored)}
           /\ (last.op = "Do" /\ last.key = k /\ last.calls = 1 /\ ~last.err
                 /\ last.ttl > 0 /\ last'.at <= last.now + last.ttl)
                => /\ last'.calls = 0
                   /\ ~last'.err
                   /\ last'.val = last.val

\* C12: every step is such a step.
C12_DoMemoizes == [][C12_Step]_vars

\* C12 witness: a Do has returned, without compute, the value that the Do
\* before it computed and stored.
C12_Witness ==
    /\ last.op = "Do"
    /\ last.calls = 0
    /\ last.follows.op = "Do"
    /\ last.follows.calls = 1
    /\ ~last.follows.err
    /\ last.val = last.follows.val

\* C13: a Do whose compute fails returns the failure after one invocation and
\* leaves index, list, trie and running cost as they were, and a Do of the
\* same key directly after it invokes compute again.
C13_Step ==
    /\ (last'.op = "Do" /\ last'.err)
          => /\ last'.calls = 1
             /\ UNCHANGED <<index, lruList, ttlTrie, cost>>
    /\ (last.op = "Do" /\ last.err /\ last'.op = "Do" /\ last'.key = last.key)
          => last'.calls = 1

\* C13: every step is such a step.
C13_FailedDoChangesNothing == [][C13_Step]_vars

\* C13 witness: two Do in a row have failed on a key whose stale entry is
\* still stored.
C13_Witness ==
    /\ last.op = "Do"
    /\ last.err
    /\ last.follows.op = "Do"
    /\ last.follows.err
    /\ last.key \in Stored

\* ---- C20: the cache of src/lru.go beside the TTL cache ----
\* The stored values of a list, in list order.
ListVals(l) == [i \in 1..Len(l) |-> l[i].Data.data]

\* C20 as claimed: with the same cost function, the same costLimit >= 0 and
\* long ttls, after every call both caches hold the same keys with the same
\* values in the same recency order at the same running cost, and a Get
\* returns the same found and value from both.
C20_SameAsLRU ==
    /\ ListKeys(lruList) = ListKeys(lru.list)
    /\ ListVals(lruList) = ListVals(lru.list)
    /\ DOMAIN index = DOMAIN lru.index
    /\ cost = lru.cost
    /\ last.op = "Get" => (last.found = lru.found /\ last.val = lru.v)

\* ---- C18: the end of the conflict loop ----
\* C18 as claimed: a Set in its conflict loop can always get on: the slot it
\* looks at is free, or the delay it adds next is not zero.
C18_LoopReachesFreeSlot ==
    loop.pc = "probe"
        => \/ ~TrieGet(ttlTrie, formatDeadlineKey(loop.deadline))
           \/ loop.conflictDelay # 0

\* ---- C14: one lock around every public method ----
\* The goroutines between Lock and Unlock.
Inside == {g \in Goroutines : conc.calls[g].pc \in {"body", "write", "unlock"}}

C14_OneInside ==
    /\ Cardinality(Inside) <= 1
    /\ \A g \in Inside : conc.mu = g
    /\ Inside = {} => conc.mu = 0

C14_SerialResults ==
    /\ \A g \in Goroutines :
          conc.calls[g].pc = "unlock" => /\ conc.calls[g].res = conc.calls[g].want
                                         /\ CacheState = conc.serial
    /\ Inside = {} => CacheState = conc.serial

\* Where a goroutine stands in its call, in the order of the code.
Rank(pc) ==
    CASE pc = "idle" -> 0 [] pc = "lock" -> 1 [] pc = "body" -> 2
      [] pc = "write" -> 3 [] pc = "unlock" -> 4

\* A goroutine inside has a step to take: it waits for nothing.
C14_HolderCanRun == \A g \in Inside : ENABLED Run(g)

\* A step of a goroutine inside takes it forward, and from the Unlock out of
\* the call with the lock free; no step of another goroutine moves it.
C14_HolderAdvances ==
    \A g \in Inside :
        \/ conc'.calls[g].pc = conc.calls[g].pc
        \/ Rank(conc'.calls[g].pc) > Rank(conc.calls[g].pc)
        \/ /\ conc.calls[g].pc = "unlock"
           /\ conc'.calls[g].pc = "idle"
           /\ conc'.mu = 0

\* C14, of calls whose conflict loop ends: at most one goroutine is between
\* Lock and Unlock, and it holds the lock; every call returns what it returns in the order in which the calls
\* took the lock, and leaves the cache that order leaves; the holder of the
\* lock can always take its next step, and its steps lead through the method
\* to the Unlock, on the early return of Delete too.
C14_LockSerializes ==
    /\ [](C14_OneInside /\ C14_SerialResults /\ C14_HolderCanRun)
    /\ [][C14_HolderAdvances]_vars

\* C14 witness: a Delete of an absent key is at its deferred Unlock, holding
\* the lock, while the other goroutine waits at Lock on a cache with an entry.
C14_Witness ==
    /\ \E g \in Goroutines :
          /\ conc.calls[g].pc = "unlock"
          /\ conc.calls[g].op = "Delete"
          /\ conc.calls[g].want.ret = 0
          /\ conc.mu = g
          /\ \E o \in Goroutines \ {g} : conc.calls[o].pc = "lock"
    /\ Stored # {}

\* C14 as claimed, the release: a goroutine that holds the lock, here a Set in
\* its conflict loop, has a step to take that gets it on towards the Unlock.
C14_HeldLockIsReleased == conc.mu # 0 => ENABLED <<NextLoop>>_vars

====
